---------------------------- MODULE Spec2Model ----------------------------
(***************************************************************************)
(* Device registry and telemetry store of simple-iot-platform              *)
(* (storage.py, app.py).  The backing file data.json, the temp files of    *)
(* write_atomic, the process-wide lock and the position of every request   *)
(* handler are the state; one action per step of a handler.                *)
(***************************************************************************)
EXTENDS Integers, Sequences, FiniteSets, Bags, TLC

(***************************************************************************)
(* Bounds of the model.                                                    *)
(***************************************************************************)
NumThreads == 2      \* concurrent request handlers
MaxTime == 2         \* instants a timestamp can name: 1..MaxTime
MaxItems == 3        \* longest stored telemetry sequence of the query specification
MaxLimit == 4        \* largest limit a query passes
MaxCrashes == 1      \* process crashes in one behaviour

Threads == 1..NumThreads
Times == 1..MaxTime

(***************************************************************************)
(* Values.                                                                 *)
(***************************************************************************)
DeviceIds == {"d1", "d2"}
ApiKeys == {"k1", "k2"}
None == "<None>"

\* A timestamp string: absent, not ISO-8601, or an ISO-8601 instant that is
\* either offset-aware ("Z") or naive (no offset).
NoTs == [kind |-> "none", t |-> 0, tz |-> ""]
BadTs == [kind |-> "bad", t |-> 0, tz |-> ""]
Iso(t, tz) == [kind |-> "iso", t |-> t, tz |-> tz]

EmptyMap == [k \in {} |-> ""]
EmptyDoc == [devices |-> EmptyMap, telemetry |-> EmptyMap]

\* python dict operations
Has(m, k) == k \in DOMAIN m
Get(m, k, default) == IF k \in DOMAIN m THEN m[k] ELSE default
Put(m, k, v) == [x \in DOMAIN m \cup {k} |-> IF x = k THEN v ELSE m[x]]
SetDefault(m, k, v) == IF k \in DOMAIN m THEN m ELSE Put(m, k, v)
\* {**a, **b}
Merge(a, b) == [x \in DOMAIN a \cup DOMAIN b |-> IF x \in DOMAIN b THEN b[x] ELSE a[x]]
Truthy(s) == s # None /\ s # ""


(***************************************************************************)
(* storage.read_all on an existing file: json.load of a truncated file     *)
(* raises json.JSONDecodeError, a subclass of ValueError.                  *)
(***************************************************************************)
ReadAll(f) ==
    IF f.state = "complete"
    THEN [raised |-> "", doc |-> f.doc]
    ELSE [raised |-> "JSONDecodeError", doc |-> EmptyDoc]

(***************************************************************************)
(* The mutators handed to with_lock_write.                                 *)
(***************************************************************************)
\* faulty variant: register_device without the `device_id in d["devices"]` check
RegisterMutOverwrite(d, device_id, meta, now) ==
    [raised |-> "",
     doc |-> [devices |-> Put(d.devices, device_id,
                              [meta |-> meta, registered_at |-> Iso(now, "Z")]),
              telemetry |-> SetDefault(d.telemetry, device_id, <<>>)]]

RegisterMut(d, device_id, meta, now) ==
    IF Has(d.devices, device_id)
    THEN [raised |-> "ValueError", doc |-> d]
    ELSE [raised |-> "",
          doc |-> [devices |-> Put(d.devices, device_id,
                                   [meta |-> meta, registered_at |-> Iso(now, "Z")]),
                   telemetry |-> SetDefault(d.telemetry, device_id, <<>>)]]

\* faulty variant: store_telemetry assigning the bucket instead of appending to it
StoreMutAssign(d, device_id, payload) ==
    IF ~Has(d.devices, device_id)
    THEN [raised |-> "KeyError", doc |-> d]
    ELSE [raised |-> "",
          doc |-> [devices |-> d.devices,
                   telemetry |-> Put(d.telemetry, device_id, <<payload>>)]]

\* faulty variant: no check that the device is registered
StoreMutNoCheck(d, device_id, payload) ==
    [raised |-> "",
     doc |-> [devices |-> d.devices,
              telemetry |-> Put(d.telemetry, device_id,
                                Append(Get(d.telemetry, device_id, <<>>), payload))]]

\* faulty variant: the append also stamps the device record
StoreMutStampsDevice(d, device_id, payload) ==
    IF ~Has(d.devices, device_id)
    THEN [raised |-> "KeyError", doc |-> d]
    ELSE [raised |-> "",
          doc |-> [devices |-> Put(d.devices, device_id,
                                   [d.devices[device_id] EXCEPT !.registered_at = payload.timestamp]),
                   telemetry |-> Put(d.telemetry, device_id,
                                     Append(Get(d.telemetry, device_id, <<>>), payload))]]

\* faulty variant: insert(0, payload) instead of append
StoreMutPrepend(d, device_id, payload) ==
    IF ~Has(d.devices, device_id)
    THEN [raised |-> "KeyError", doc |-> d]
    ELSE [raised |-> "",
          doc |-> [devices |-> d.devices,
                   telemetry |-> Put(d.telemetry, device_id,
                                     <<payload>> \o Get(d.telemetry, device_id, <<>>))]]

StoreMut(d, device_id, payload) ==
    IF ~Has(d.devices, device_id)
    THEN [raised |-> "KeyError", doc |-> d]
    ELSE [raised |-> "",
          doc |-> [devices |-> d.devices,
                   telemetry |-> Put(d.telemetry, device_id,
                                     Append(Get(d.telemetry, device_id, <<>>), payload))]]

(***************************************************************************)
(* storage.get_telemetry after the locked read.                            *)
(***************************************************************************)
NoDt == [ok |-> FALSE, t |-> 0, aware |-> FALSE]
\* to_dt: dateutil's isoparse, None on any failure
ToDt(s) == IF s.kind = "iso" THEN [ok |-> TRUE, t |-> s.t, aware |-> s.tz = "Z"] ELSE NoDt
Given(s) == s.kind # "none"

\* what one pass of the filter loop does with a record
ItemOutcome(it, s_dt, e_dt) ==
    LET tdt == IF Given(it.timestamp) THEN ToDt(it.timestamp) ELSE NoDt
    IN  IF ~tdt.ok THEN "skip"
        ELSE IF s_dt.ok /\ tdt.aware # s_dt.aware THEN "raise"
        ELSE IF s_dt.ok /\ tdt.t < s_dt.t THEN "skip"
        ELSE IF e_dt.ok /\ tdt.aware # e_dt.aware THEN "raise"
        ELSE IF e_dt.ok /\ tdt.t > e_dt.t THEN "skip"
        ELSE "keep"

RECURSIVE KeepItems(_, _, _)
KeepItems(items, s_dt, e_dt) ==
    IF items = <<>> THEN <<>>
    ELSE LET rest == KeepItems(Tail(items), s_dt, e_dt)
         IN  IF ItemOutcome(Head(items), s_dt, e_dt) = "keep"
             THEN <<Head(items)>> \o rest ELSE rest

\* faulty variant: the loop runs whether or not a bound was given
TimeFilterAlways(items, start_iso, end_iso) ==
    LET s_dt == IF Given(start_iso) THEN ToDt(start_iso) ELSE NoDt
        e_dt == IF Given(end_iso) THEN ToDt(end_iso) ELSE NoDt
    IN  IF \E i \in 1..Len(items) : ItemOutcome(items[i], s_dt, e_dt) = "raise"
        THEN [raised |-> "TypeError", items |-> <<>>]
        ELSE [raised |-> "", items |-> KeepItems(items, s_dt, e_dt)]

\* the `if start_iso or end_iso:` block
TimeFilter(items, start_iso, end_iso) ==
    IF Given(start_iso) \/ Given(end_iso)
    THEN LET s_dt == IF Given(start_iso) THEN ToDt(start_iso) ELSE NoDt
             e_dt == IF Given(end_iso) THEN ToDt(end_iso) ELSE NoDt
         IN  IF \E i \in 1..Len(items) : ItemOutcome(items[i], s_dt, e_dt) = "raise"
             THEN [raised |-> "TypeError", items |-> <<>>]
             ELSE [raised |-> "", items |-> KeepItems(items, s_dt, e_dt)]
    ELSE [raised |-> "", items |-> items]

\* python's items[i:]
SliceFrom(items, i) ==
    LET n == Len(items)
        j == IF i < 0 THEN (IF i + n < 0 THEN 0 ELSE i + n)
             ELSE IF i > n THEN n ELSE i
    IN  SubSeq(items, j + 1, n)

\* faulty variant: items[:limit]
LastLimitFirst(items, limit) == SubSeq(items, 1, IF limit < Len(items) THEN limit ELSE Len(items))

\* items[-limit:]
LastLimit(items, limit) == SliceFrom(items, 0 - limit)

GetTelemetry(d, device_id, start_iso, end_iso, limit) ==
    IF ~Has(d.telemetry, device_id)
    THEN [raised |-> "", items |-> <<>>]
    ELSE LET f == TimeFilter(d.telemetry[device_id], start_iso, end_iso)
         IN  IF f.raised # "" THEN f
             ELSE [raised |-> "", items |-> LastLimit(f.items, limit)]


(***************************************************************************)
(* State.                                                                  *)
(***************************************************************************)
VARIABLES
    file,       \* data.json: [state |-> "missing" | "partial" | "complete", doc]
    tmp,        \* per handler, the temp file write_atomic made: "none" | "empty" | "partial" | "complete"
    lock,       \* holder of storage._lock, 0 when free
    pc,         \* per handler, its position
    req,        \* per handler, the request it serves and the locals it built
    data,       \* per handler, the document inside with_lock_write (data / to_write)
    res,        \* per handler, the response it gave
    ret,        \* per handler, what a list or query returned
    crashes,    \* process crashes so far
    committed,  \* history: the documents data.json has held
    initial     \* history: data.json when the process started

vars == <<file, tmp, lock, pc, req, data, res, ret, crashes, committed, initial>>

NoRec == [timestamp |-> NoTs, data |-> ""]
NoReq == [op |-> "", dev |-> None, key |-> None, meta |-> EmptyMap, ts |-> NoTs,
          payload |-> NoRec, start |-> NoTs, end |-> NoTs, limit |-> 0]
NoRet == [devices |-> EmptyMap, items |-> <<>>]

Complete(d) == [state |-> "complete", doc |-> d]
Missing == [state |-> "missing", doc |-> EmptyDoc]
Partial == [state |-> "partial", doc |-> EmptyDoc]

\* A data.json written by hand or by an earlier deployment: a device whose meta
\* has no api_key and that has no telemetry bucket.
LegacyDoc ==
    [devices |-> [d \in {"d1"} |-> [meta |-> [name |-> "old"], registered_at |-> Iso(1, "Z")]],
     telemetry |-> EmptyMap]

\* A data.json in which d1 was registered and has sent one record.
RegisteredDoc ==
    [devices |-> [d \in {"d1"} |-> [meta |-> [name |-> "n", api_key |-> "k1"],
                                     registered_at |-> Iso(1, "Z")]],
     telemetry |-> [d \in {"d1"} |-> <<[timestamp |-> Iso(1, "Z"), data |-> "{}"]>>]]

\* The same with a second device, d2, whose stored api_key is empty.
MixedDoc ==
    [devices |-> [d \in {"d1", "d2"} |->
                    IF d = "d1" THEN RegisteredDoc.devices["d1"]
                    ELSE [meta |-> [name |-> "old", api_key |-> ""],
                          registered_at |-> Iso(1, "Z")]],
     telemetry |-> [d \in {"d1", "d2"} |->
                    IF d = "d1" THEN RegisteredDoc.telemetry["d1"] ELSE <<>>]]

InitFiles == {Missing, Complete(EmptyDoc), Complete(LegacyDoc), Complete(RegisteredDoc),
              Complete(MixedDoc)}

\* request inputs
NameInputs == {"n"}
MetaInputs == {EmptyMap, [api_key |-> "own", site |-> "s"]}
KeyInputs == ApiKeys \cup {None}
TsInputs == {NoTs, BadTs, Iso(1, "Z")}
DataInputs == {None, "v"}
DefaultLimit == 100

InitWith(files) ==
    /\ file \in files
    /\ tmp = [t \in Threads |-> "none"]
    /\ lock = 0
    /\ pc = [t \in Threads |-> "idle"]
    /\ req = [t \in Threads |-> NoReq]
    /\ data = [t \in Threads |-> EmptyDoc]
    /\ res = [t \in Threads |-> ""]
    /\ ret = [t \in Threads |-> NoRet]
    /\ crashes = 0
    /\ committed = {file.doc}
    /\ initial = file

Init == InitWith(InitFiles)

\* Handlers are numbered in the order their requests arrive.
Arrives(t) == pc[t] = "idle" /\ \A u \in Threads : u < t => pc[u] # "idle"

\* a handler returns: its locals are gone
Answered(r) == [r EXCEPT !.meta = EmptyMap, !.ts = NoTs]

FinishReq(t, response, r) ==
    /\ pc' = [pc EXCEPT ![t] = "done"]
    /\ res' = [res EXCEPT ![t] = response]
    /\ data' = [data EXCEPT ![t] = EmptyDoc]
    /\ req' = [req EXCEPT ![t] = Answered(r)]

Finish(t, response) == FinishReq(t, response, req[t])

\* faulty variant: meta.setdefault("api_key", api_key) keeps the caller's own key
StartRegisterKeepsOwnKey(t) ==
    /\ Arrives(t)
    /\ \E device_id_in \in DeviceIds \cup {None}, uuid \in DeviceIds,
          name \in NameInputs, meta_in \in MetaInputs, api_key \in ApiKeys :
          LET device_id == IF Truthy(device_id_in) THEN device_id_in ELSE uuid
              meta == SetDefault(meta_in, "api_key", api_key)
          IN  req' = [req EXCEPT ![t] = [NoReq EXCEPT !.op = "register", !.dev = device_id,
                                          !.key = api_key,
                                          !.meta = Merge([name |-> name], meta)]]
    /\ pc' = [pc EXCEPT ![t] = "w_lock"]
    /\ UNCHANGED <<file, tmp, lock, data, res, ret, crashes, committed, initial>>

(***************************************************************************)
(* app.register_device up to the call of storage.register_device.          *)
(***************************************************************************)
StartRegister(t) ==
    /\ Arrives(t)
    /\ \E device_id_in \in DeviceIds \cup {None}, uuid \in DeviceIds,
          name \in NameInputs, meta_in \in MetaInputs, api_key \in ApiKeys :
          LET device_id == IF Truthy(device_id_in) THEN device_id_in ELSE uuid
              meta == Put(meta_in, "api_key", api_key)
          IN  req' = [req EXCEPT ![t] = [NoReq EXCEPT !.op = "register", !.dev = device_id,
                                          !.key = api_key,
                                          !.meta = Merge([name |-> name], meta)]]
    /\ pc' = [pc EXCEPT ![t] = "w_lock"]
    /\ UNCHANGED <<file, tmp, lock, data, res, ret, crashes, committed, initial>>

(***************************************************************************)
(* app.telemetry_ingest up to the device_id check.                         *)
(***************************************************************************)
StartIngest(t) ==
    /\ Arrives(t)
    /\ \E device_id \in DeviceIds \cup {None} :
          /\ req' = [req EXCEPT ![t] = [NoReq EXCEPT !.op = "ingest", !.dev = device_id]]
          /\ IF ~Truthy(device_id)
             THEN /\ pc' = [pc EXCEPT ![t] = "done"]
                  /\ res' = [res EXCEPT ![t] = "missing_id"]
             ELSE /\ pc' = [pc EXCEPT ![t] = "r_lock"]
                  /\ UNCHANGED res
    /\ UNCHANGED data
    /\ UNCHANGED <<file, tmp, lock, ret, crashes, committed, initial>>

(***************************************************************************)
(* app.list_devices, index, dashboard: storage.list_devices.               *)
(***************************************************************************)
StartList(t) ==
    /\ Arrives(t)
    /\ req' = [req EXCEPT ![t] = [NoReq EXCEPT !.op = "list"]]
    /\ pc' = [pc EXCEPT ![t] = "r_lock"]
    /\ UNCHANGED <<file, tmp, lock, data, res, ret, crashes, committed, initial>>

(***************************************************************************)
(* app.telemetry_query, api_telemetry: storage.get_telemetry.              *)
(***************************************************************************)
StartQueryWith(t, starts, ends, limits) ==
    /\ Arrives(t)
    /\ \E device_id \in DeviceIds, start \in starts, end \in ends, limit \in limits :
          req' = [req EXCEPT ![t] = [NoReq EXCEPT !.op = "query", !.dev = device_id,
                                      !.start = start, !.end = end, !.limit = limit]]
    /\ pc' = [pc EXCEPT ![t] = "r_lock"]
    /\ UNCHANGED <<file, tmp, lock, data, res, ret, crashes, committed, initial>>

StartQuery(t) == StartQueryWith(t, {NoTs, Iso(MaxTime, "Z")}, {NoTs}, {1, DefaultLimit})


(***************************************************************************)
(* `with _lock:` on entry, in with_lock_read and with_lock_write.          *)
(***************************************************************************)
\* faulty variant: with_lock_read entered without waiting for the lock
AcquireReadNoWait(t) ==
    /\ pc[t] = "r_lock"
    /\ lock' = t
    /\ pc' = [pc EXCEPT ![t] = "r_read"]
    /\ UNCHANGED <<file, tmp, req, data, res, ret, crashes, committed, initial>>

AcquireRead(t) ==
    /\ pc[t] = "r_lock"
    /\ lock = 0
    /\ lock' = t
    /\ pc' = [pc EXCEPT ![t] = "r_read"]
    /\ UNCHANGED <<file, tmp, req, data, res, ret, crashes, committed, initial>>

\* faulty variant: with_lock_write entered without waiting for the lock
AcquireWriteNoWait(t) ==
    /\ pc[t] = "w_lock"
    /\ lock' = t
    /\ pc' = [pc EXCEPT ![t] = "w_read"]
    /\ UNCHANGED <<file, tmp, req, data, res, ret, crashes, committed, initial>>

AcquireWrite(t) ==
    /\ pc[t] = "w_lock"
    /\ lock = 0
    /\ lock' = t
    /\ pc' = [pc EXCEPT ![t] = "w_read"]
    /\ UNCHANGED <<file, tmp, req, data, res, ret, crashes, committed, initial>>

(***************************************************************************)
(* _ensure_datafile when data.json does not exist: open(.., "w") creates   *)
(* the empty file, json.dump then fills it.                                *)
(***************************************************************************)
EnsureOpen(t) ==
    /\ pc[t] \in {"r_read", "w_read"}
    /\ file.state = "missing"
    /\ file' = Partial
    /\ pc' = [pc EXCEPT ![t] = IF pc[t] = "r_read" THEN "r_ensure" ELSE "w_ensure"]
    /\ UNCHANGED <<tmp, lock, req, data, res, ret, crashes, committed, initial>>

EnsureDump(t) ==
    /\ pc[t] \in {"r_ensure", "w_ensure"}
    /\ file' = Complete(EmptyDoc)
    /\ committed' = committed \cup {EmptyDoc}
    /\ pc' = [pc EXCEPT ![t] = IF pc[t] = "r_ensure" THEN "r_read" ELSE "w_read"]
    /\ UNCHANGED <<tmp, lock, req, data, res, ret, crashes, initial>>

(***************************************************************************)
(* storage.list_devices: with_lock_read, then d["devices"].                *)
(***************************************************************************)
ReadList(t) ==
    /\ pc[t] = "r_read"
    /\ req[t].op = "list"
    /\ file.state # "missing"
    /\ lock' = 0
    /\ LET r == ReadAll(file)
       IN  IF r.raised # ""
           THEN Finish(t, "error") /\ UNCHANGED ret
           ELSE Finish(t, "ok") /\ ret' = [ret EXCEPT ![t].devices = r.doc.devices]
    /\ UNCHANGED <<file, tmp, crashes, committed, initial>>

\* faulty variant: get_telemetry taking the bucket with setdefault and saving the document
ReadQueryCreatesBucket(t) ==
    /\ pc[t] = "r_read"
    /\ req[t].op = "query"
    /\ file.state # "missing"
    /\ lock' = 0
    /\ LET r == ReadAll(file)
           g == GetTelemetry(r.doc, req[t].dev, req[t].start, req[t].end, req[t].limit)
       IN  IF r.raised # "" \/ g.raised # ""
           THEN Finish(t, "error") /\ UNCHANGED <<ret, file>>
           ELSE /\ Finish(t, "ok") /\ ret' = [ret EXCEPT ![t].items = g.items]
                /\ file' = Complete([r.doc EXCEPT !.telemetry = SetDefault(@, req[t].dev, <<>>)])
    /\ UNCHANGED <<tmp, crashes, committed, initial>>

(***************************************************************************)
(* storage.get_telemetry.                                                  *)
(***************************************************************************)
ReadQuery(t) ==
    /\ pc[t] = "r_read"
    /\ req[t].op = "query"
    /\ file.state # "missing"
    /\ lock' = 0
    /\ LET r == ReadAll(file)
           g == GetTelemetry(r.doc, req[t].dev, req[t].start, req[t].end, req[t].limit)
       IN  IF r.raised # "" \/ g.raised # ""
           THEN Finish(t, "error") /\ UNCHANGED ret
           ELSE Finish(t, "ok") /\ ret' = [ret EXCEPT ![t].items = g.items]
    /\ UNCHANGED <<file, tmp, crashes, committed, initial>>

(***************************************************************************)
(* app.telemetry_ingest from the api key check to the call of              *)
(* storage.store_telemetry.                                                *)
(***************************************************************************)
\* faulty variant: an unknown device answered as a wrong key
IngestCheckWrongError(devices, device_id, api_key) ==
    IF ~Has(devices, device_id) THEN "bad_key"
    ELSE LET expected_key == Get(devices[device_id].meta, "api_key", None)
         IN  IF Truthy(expected_key) /\ api_key # expected_key THEN "bad_key" ELSE ""

\* faulty variant: the key compared only when the request carries one
IngestCheckKeyOptional(devices, device_id, api_key) ==
    IF ~Has(devices, device_id) THEN "unknown"
    ELSE LET expected_key == Get(devices[device_id].meta, "api_key", None)
         IN  IF Truthy(expected_key) /\ Truthy(api_key) /\ api_key # expected_key
             THEN "bad_key" ELSE ""

\* the response of lines 43-49, "" when the request passes
IngestCheck(devices, device_id, api_key) ==
    IF ~Has(devices, device_id) THEN "unknown"
    ELSE LET expected_key == Get(devices[device_id].meta, "api_key", None)
         IN  IF Truthy(expected_key) /\ api_key # expected_key THEN "bad_key" ELSE ""

\* lines 51-54
BuildTelemetry(ts_in, data_in, now) ==
    [timestamp |-> IF Given(ts_in) THEN ts_in ELSE Iso(now, "Z"),
     data |-> IF data_in = None THEN "{}" ELSE data_in]

ReadCheck(t) ==
    /\ pc[t] = "r_read"
    /\ req[t].op = "ingest"
    /\ file.state # "missing"
    /\ lock' = 0
    /\ \E api_key \in KeyInputs, ts_in \in TsInputs, data_in \in DataInputs, now \in Times :
          LET r == ReadAll(file)
              c == IngestCheck(r.doc.devices, req[t].dev, api_key)
          IN  IF r.raised # ""
              THEN Finish(t, "error")
              ELSE IF c # ""
              THEN FinishReq(t, c, [req[t] EXCEPT !.key = api_key])
              ELSE /\ req' = [req EXCEPT ![t].key = api_key, ![t].ts = ts_in,
                                         ![t].payload = BuildTelemetry(ts_in, data_in, now)]
                   /\ pc' = [pc EXCEPT ![t] = "w_lock"]
                   /\ UNCHANGED <<res, data>>
    /\ UNCHANGED <<file, tmp, ret, crashes, committed, initial>>

(***************************************************************************)
(* with_lock_write: read_all and the mutator; an exception leaves the      *)
(* `with` block, which releases the lock, and reaches the handler.         *)
(***************************************************************************)
\* the except clauses of app.register_device and app.telemetry_ingest
HandlerResponse(op, raised) ==
    IF op = "register" /\ raised \in {"ValueError", "JSONDecodeError"} THEN "exists"
    ELSE IF op = "ingest" /\ raised = "KeyError" THEN "unknown"
    ELSE "error"

Mutate(d, r, now) ==
    IF r.op = "register" THEN RegisterMut(d, r.dev, r.meta, now)
    ELSE StoreMut(d, r.dev, r.payload)

\* faulty variant: acquire() and release() around the body instead of `with`,
\* so that an exception leaves the lock held
ReadMutateKeepsLock(t) ==
    /\ pc[t] = "w_read"
    /\ file.state # "missing"
    /\ \E now \in Times :
          LET r == ReadAll(file)
              m == Mutate(r.doc, req[t], now)
          IN  IF r.raised # ""
              THEN Finish(t, HandlerResponse(req[t].op, r.raised)) /\ UNCHANGED lock
              ELSE IF m.raised # ""
              THEN Finish(t, HandlerResponse(req[t].op, m.raised)) /\ UNCHANGED lock
              ELSE /\ data' = [data EXCEPT ![t] = m.doc]
                   /\ pc' = [pc EXCEPT ![t] = "w_mkstemp"]
                   /\ UNCHANGED <<res, lock, req>>
    /\ UNCHANGED <<file, tmp, ret, crashes, committed, initial>>

ReadMutate(t) ==
    /\ pc[t] = "w_read"
    /\ file.state # "missing"
    /\ \E now \in Times :
          LET r == ReadAll(file)
              m == Mutate(r.doc, req[t], now)
          IN  IF r.raised # ""
              THEN Finish(t, HandlerResponse(req[t].op, r.raised)) /\ lock' = 0
              ELSE IF m.raised # ""
              THEN Finish(t, HandlerResponse(req[t].op, m.raised)) /\ lock' = 0
              ELSE /\ data' = [data EXCEPT ![t] = m.doc]
                   /\ pc' = [pc EXCEPT ![t] = "w_mkstemp"]
                   /\ UNCHANGED <<res, lock, req>>
    /\ UNCHANGED <<file, tmp, ret, crashes, committed, initial>>

(***************************************************************************)
(* write_atomic: mkstemp, json.dump + flush + fsync, os.replace; then the  *)
(* `with` block ends and the handler answers.                              *)
(***************************************************************************)
\* faulty variant: write_atomic opening data.json itself for writing, which truncates it
MkstempTruncates(t) ==
    /\ pc[t] = "w_mkstemp"
    /\ file' = Partial
    /\ pc' = [pc EXCEPT ![t] = "w_dump"]
    /\ UNCHANGED <<tmp, lock, req, data, res, ret, crashes, committed, initial>>

Mkstemp(t) ==
    /\ pc[t] = "w_mkstemp"
    /\ tmp' = [tmp EXCEPT ![t] = "empty"]
    /\ pc' = [pc EXCEPT ![t] = "w_dump"]
    /\ UNCHANGED <<file, lock, req, data, res, ret, crashes, committed, initial>>

\* faulty variant: write_atomic dumping into data.json as well as into the temp file
DumpInPlace(t) ==
    /\ pc[t] = "w_dump"
    /\ tmp' = [tmp EXCEPT ![t] = "complete"]
    /\ file' = Complete(data[t])
    /\ pc' = [pc EXCEPT ![t] = "w_replace"]
    /\ UNCHANGED <<lock, req, data, res, ret, crashes, committed, initial>>

Dump(t) ==
    /\ pc[t] = "w_dump"
    /\ tmp' = [tmp EXCEPT ![t] = "complete"]
    /\ pc' = [pc EXCEPT ![t] = "w_replace"]
    /\ UNCHANGED <<file, lock, req, data, res, ret, crashes, committed, initial>>

\* faulty variant: write_atomic without its os.replace
ReplaceSkipped(t) ==
    /\ pc[t] = "w_replace"
    /\ lock' = 0
    /\ Finish(t, "ok")
    /\ UNCHANGED <<file, tmp, ret, crashes, committed, initial>>

Replace(t) ==
    /\ pc[t] = "w_replace"
    /\ file' = Complete(data[t])
    /\ committed' = committed \cup {data[t]}
    /\ tmp' = [tmp EXCEPT ![t] = "none"]
    /\ lock' = 0
    /\ Finish(t, "ok")
    /\ UNCHANGED <<ret, crashes, initial>>

Next ==
    \E t \in Threads :
        \/ StartRegister(t)
        \/ StartIngest(t)
        \/ StartList(t)
        \/ StartQuery(t)
        \/ AcquireRead(t)
        \/ AcquireWrite(t)
        \/ EnsureOpen(t)
        \/ EnsureDump(t)
        \/ ReadList(t)
        \/ ReadQuery(t)
        \/ ReadCheck(t)
        \/ ReadMutate(t)
        \/ Mkstemp(t)
        \/ Dump(t)
        \/ Replace(t)

Spec == Init /\ [][Next]_vars


(***************************************************************************)
(* Faults: a step of the file system raising OSError, and the process      *)
(* dying.  An exception leaves with_lock_write through its `with` block    *)
(* (the lock is released) and no handler catches OSError; the temp file    *)
(* of write_atomic is never removed.                                       *)
(***************************************************************************)
EnsureOpenFails(t) ==
    /\ pc[t] \in {"r_read", "w_read"}
    /\ file.state = "missing"
    /\ lock' = 0
    /\ Finish(t, "error")
    /\ UNCHANGED <<file, tmp, ret, crashes, committed, initial>>

EnsureDumpFails(t) ==
    /\ pc[t] \in {"r_ensure", "w_ensure"}
    /\ lock' = 0
    /\ Finish(t, "error")
    /\ UNCHANGED <<file, tmp, ret, crashes, committed, initial>>

MkstempFails(t) ==
    /\ pc[t] = "w_mkstemp"
    /\ lock' = 0
    /\ Finish(t, "error")
    /\ UNCHANGED <<file, tmp, ret, crashes, committed, initial>>

\* json.dump raising leaves a truncated temp file, flush or fsync a whole one
DumpFails(t) ==
    /\ pc[t] = "w_dump"
    /\ \E left \in {"partial", "complete"} : tmp' = [tmp EXCEPT ![t] = left]
    /\ lock' = 0
    /\ Finish(t, "error")
    /\ UNCHANGED <<file, ret, crashes, committed, initial>>

ReplaceFails(t) ==
    /\ pc[t] = "w_replace"
    /\ lock' = 0
    /\ Finish(t, "error")
    /\ UNCHANGED <<file, tmp, ret, crashes, committed, initial>>

InFlight(t) == pc[t] \notin {"idle", "done", "crashed"}

\* The process dies and is started again: the handlers in flight are gone with
\* their locals and the lock is a new, free one; the files stay as they are.
Crash ==
    /\ crashes < MaxCrashes
    /\ \E t \in Threads : InFlight(t)
    /\ crashes' = crashes + 1
    /\ pc' = [t \in Threads |-> IF InFlight(t) THEN "crashed" ELSE pc[t]]
    /\ data' = [t \in Threads |-> EmptyDoc]
    /\ lock' = 0
    /\ UNCHANGED <<file, tmp, req, res, ret, committed, initial>>

Fault ==
    \/ Crash
    \/ \E t \in Threads :
        \/ EnsureOpenFails(t)
        \/ EnsureDumpFails(t)
        \/ MkstempFails(t)
        \/ DumpFails(t)
        \/ ReplaceFails(t)

NextFault == Next \/ Fault

SpecFault == Init /\ [][NextFault]_vars

(***************************************************************************)
(* Scheduling.  Every handler runs in a thread of its own (the server is   *)
(* threaded) and a thread that can take its next step takes it; requests   *)
(* need not arrive.  A step of the file system may raise, and the process  *)
(* stays up.  A handler waiting for storage._lock can be passed over while *)
(* others take it, but each handler takes the lock at most twice, so weak  *)
(* fairness of each handler's steps is what the scheduling gives.          *)
(***************************************************************************)
Raises(t) ==
    \/ EnsureOpenFails(t)
    \/ EnsureDumpFails(t)
    \/ MkstempFails(t)
    \/ DumpFails(t)
    \/ ReplaceFails(t)

\* the steps of handler t after its request arrived
Proceed(t) ==
    \/ AcquireRead(t)
    \/ AcquireWrite(t)
    \/ EnsureOpen(t)
    \/ EnsureDump(t)
    \/ ReadList(t)
    \/ ReadQuery(t)
    \/ ReadCheck(t)
    \/ ReadMutate(t)
    \/ Mkstemp(t)
    \/ Dump(t)
    \/ Replace(t)
    \/ Raises(t)

NextLive ==
    \E t \in Threads :
        \/ StartRegister(t)
        \/ StartIngest(t)
        \/ StartList(t)
        \/ StartQuery(t)
        \/ Proceed(t)

Fairness == \A t \in Threads : WF_vars(Proceed(t))

SpecLive == Init /\ [][NextLive]_vars /\ Fairness

(***************************************************************************)
(* Queries over stored telemetry of every shape: data.json holds d1 with   *)
(* any sequence of up to MaxItems records, and one handler queries it      *)
(* with any bounds and any limit.                                          *)
(***************************************************************************)
QueryTs == {NoTs, BadTs, Iso(1, "")} \cup {Iso(t, "Z") : t \in Times}
QueryRecords == {[timestamp |-> ts, data |-> "{}"] : ts \in QueryTs}
QueryLimits == (-1..MaxLimit) \cup {DefaultLimit}

RECURSIVE SeqsUpTo(_, _)
SeqsUpTo(S, n) ==
    IF n = 0 THEN {<<>>}
    ELSE LET shorter == SeqsUpTo(S, n - 1)
         IN  shorter \cup {Append(q, x) : q \in shorter, x \in S}

QueryDoc(items) ==
    [devices |-> RegisteredDoc.devices, telemetry |-> [d \in {"d1"} |-> items]]

QueryFiles == {Complete(QueryDoc(items)) : items \in SeqsUpTo(QueryRecords, MaxItems)}

InitQuery == InitWith(QueryFiles)

StartQueryFull(t) == StartQueryWith(t, QueryTs, QueryTs, QueryLimits)

NextQuery == StartQueryFull(1) \/ AcquireRead(1) \/ ReadQuery(1)

SpecQuery == InitQuery /\ [][NextQuery]_vars


(***************************************************************************)
(* Properties.                                                             *)
(***************************************************************************)
FileOk == file.state = "complete"
Devices == file.doc.devices
Bucket(d, device_id) == Get(d.telemetry, device_id, <<>>)
Count(items, r) == Cardinality({i \in 1..Len(items) : items[i] = r})
Range(items) == {items[i] : i \in 1..Len(items)}
StoredKey(devices, device_id) == Get(devices[device_id].meta, "api_key", None)

Registers(t) == req[t].op = "register"
Ingests(t) == req[t].op = "ingest"
Succeeded(t) == pc[t] = "done" /\ res[t] = "ok"
Registered(device_id) == {t \in Threads : Registers(t) /\ req[t].dev = device_id /\ Succeeded(t)}
Ingested(device_id) == {t \in Threads : Ingests(t) /\ req[t].dev = device_id /\ Succeeded(t)}

\* C1: concurrent register_device calls with pairwise distinct, new device ids
\* all succeed, and data.json then holds every one of them, with the api key
\* that call generated, beside the devices it held at the start.
C1_NoLostRegistration ==
    \A t \in Threads :
        (Registers(t) /\ pc[t] = "done") =>
            /\ FileOk
            /\ DOMAIN initial.doc.devices \subseteq DOMAIN Devices
            /\ Has(Devices, req[t].dev)
            /\ ( (/\ ~Has(initial.doc.devices, req[t].dev)
                  /\ \A u \in Threads \ {t} : ~(Registers(u) /\ req[u].dev = req[t].dev))
                 => /\ res[t] = "ok"
                    /\ StoredKey(Devices, req[t].dev) = req[t].key )

C1_Witness ==
    /\ \A t \in Threads : Registers(t) /\ Succeeded(t)
    /\ \A t, u \in Threads : t # u => req[t].dev # req[u].dev
    /\ {req[t].dev : t \in Threads} \subseteq DOMAIN Devices

\* C2: concurrent ingestion requests for a device registered from the start,
\* each with a key the check accepts, all succeed, and the device's sequence
\* is the one it had at the start plus each accepted record exactly once.
C2_NoLostAppend ==
    /\ \A t \in Threads :
          (/\ Ingests(t) /\ pc[t] = "done"
           /\ Has(initial.doc.devices, req[t].dev)
           /\ IngestCheck(initial.doc.devices, req[t].dev, req[t].key) = "")
          => res[t] = "ok"
    /\ FileOk =>
          \A d \in DeviceIds :
             LET now == Bucket(file.doc, d)
                 was == Bucket(initial.doc, d)
             IN  /\ Len(now) = Len(was) + Cardinality(Ingested(d))
                 /\ \A r \in Range(now) \cup {req[t].payload : t \in Ingested(d)} :
                       Count(now, r) = Count(was, r)
                          + Cardinality({t \in Ingested(d) : req[t].payload = r})

C2_Witness ==
    /\ \A t \in Threads : Ingests(t) /\ Succeeded(t) /\ req[t].dev = "d1"
    /\ Len(Bucket(file.doc, "d1")) = Len(Bucket(initial.doc, "d1")) + NumThreads

\* C3, one step of a handler
C3_ExistsStep ==
    \A t \in Threads :
        (/\ pc[t] = "w_read" /\ Registers(t) /\ FileOk
         /\ Has(Devices, req[t].dev)
         /\ pc'[t] # pc[t])
        => /\ pc'[t] = "done"
           /\ res'[t] = "exists"
           /\ file' = file
           /\ lock' = 0

\* C3, every state
C3_OneWinner ==
    \A d \in DeviceIds :
        LET calls == {t \in Threads : Registers(t) /\ req[t].dev = d}
        IN  /\ Cardinality(Registered(d)) <= 1
            /\ Has(initial.doc.devices, d) => Registered(d) = {}
            /\ \A t \in calls : pc[t] = "done" /\ res[t] # "ok" => res[t] = "exists"
            /\ (calls # {} /\ ~Has(initial.doc.devices, d) /\ \A t \in calls : pc[t] = "done")
                  => Cardinality(Registered(d)) = 1

\* C3: register_device for an id that is already registered answers
\* "device already exists" and leaves data.json as it is; of the calls that
\* register one id at most one succeeds, none when the id was there from the
\* start, and exactly one once they have all returned otherwise.
C3_DuplicateRejected == [][C3_ExistsStep]_vars /\ []C3_OneWinner

C3_Witness ==
    \E t, u \in Threads :
        /\ Registers(t) /\ Succeeded(t)
        /\ Registers(u) /\ pc[u] = "done" /\ res[u] = "exists"
        /\ req[u].dev = req[t].dev
        /\ req[u].key # req[t].key
        /\ StoredKey(Devices, req[t].dev) = req[t].key


InWriteAtomic(t) == pc[t] \in {"w_mkstemp", "w_dump", "w_replace"}
InLock(t) == pc[t] \in {"r_read", "r_ensure", "w_read", "w_ensure"} \/ InWriteAtomic(t)

\* data.json still holds the document handler t read: the document t is about
\* to write is the mutator's result on it
StillOld(t) ==
    /\ FileOk
    /\ \E now \in Times : Mutate(file.doc, req[t], now) = [raised |-> "", doc |-> data[t]]

\* C4, one step of a handler
C4_Step ==
    \A t \in Threads :
        InWriteAtomic(t) =>
            /\ FileOk
            /\ file'.state = "complete"
            /\ file' = file \/ file' = Complete(data[t])
            /\ pc'[t] = "crashed" => file' = file /\ StillOld(t)

\* C4, every state
C4_AfterCrash ==
    \A t \in Threads :
        (pc[t] = "crashed" /\ tmp[t] # "none") => FileOk /\ file.doc \in committed

\* C4: while a handler is inside write_atomic, every step, a crash of the
\* process included, leaves data.json complete and holding either the document
\* it held before the step or the whole new document; a crash leaves it as it
\* was, and after a crash inside write_atomic data.json is a complete document
\* that was fully written.
C4_CrashAtomic == [][C4_Step]_vars /\ []C4_AfterCrash

C4_Witness ==
    \E t, u \in Threads :
        /\ pc[t] = "crashed" /\ tmp[t] = "complete"
        /\ req[u].op = "list" /\ Succeeded(u)
        /\ file = initial
        /\ ret[u].devices = initial.doc.devices

\* C5, one step of a handler
C5_Step ==
    \A t \in Threads :
        (InWriteAtomic(t) /\ pc'[t] = "done" /\ res'[t] # "ok")
        => /\ res'[t] = "error"
           /\ lock' = 0
           /\ file' = file

\* C5, every state
C5_Untouched == \A t \in Threads : InWriteAtomic(t) => StillOld(t)

\* C5: data.json is untouched until os.replace: inside write_atomic it still
\* holds the document that was read, and a failure of mkstemp, json.dump,
\* flush or fsync (or of os.replace itself) leaves it so, releases the lock
\* and reaches the client as a server error.
C5_FailedWriteKeepsFile == [][C5_Step]_vars /\ []C5_Untouched

C5_Witness ==
    \E t \in Threads :
        /\ pc[t] = "done" /\ res[t] = "error" /\ tmp[t] = "partial"
        /\ file = initial /\ FileOk

\* C6: at most one handler is between acquiring and releasing storage._lock,
\* and it is the holder; what list_devices and get_telemetry return was
\* computed from a document data.json held after a whole number of writes.
C6_Serialized ==
    /\ Cardinality({t \in Threads : InLock(t)}) <= 1
    /\ \A t \in Threads : InLock(t) <=> lock = t
    /\ \A t \in Threads :
          Succeeded(t) =>
             /\ req[t].op = "list" => \E d \in committed : ret[t].devices = d.devices
             /\ req[t].op = "query" =>
                   \E d \in committed :
                      GetTelemetry(d, req[t].dev, req[t].start, req[t].end, req[t].limit)
                         = [raised |-> "", items |-> ret[t].items]

C6_Witness ==
    \E t, u \in Threads :
        /\ pc[t] = "r_read" /\ lock = t
        /\ pc[u] = "w_lock" /\ Registers(u)
        /\ FileOk


Queries(t) == req[t].op = "query"
Storing(t) == pc[t] \in {"w_lock", "w_read", "w_ensure"} \/ InWriteAtomic(t)
Min(a, b) == IF a < b THEN a ELSE b

\* C7, one step of a handler
C7_Step ==
    \A t \in Threads :
        (/\ pc[t] = "r_read" /\ Ingests(t) /\ FileOk
         /\ ~Has(Devices, req[t].dev)
         /\ pc'[t] # pc[t])
        => /\ pc'[t] = "done"
           /\ res'[t] = "unknown"
           /\ file' = file

\* C7, every state
C7_Recheck ==
    FileOk =>
        /\ \A d \in DeviceIds \ DOMAIN Devices :
              \A t \in Threads :
                 StoreMut(file.doc, d, req[t].payload) = [raised |-> "KeyError", doc |-> file.doc]
        /\ HandlerResponse("ingest", "KeyError") = "unknown"
        /\ \A t \in Threads : (Ingests(t) /\ Succeeded(t)) => Has(Devices, req[t].dev)
        /\ \A d \in DOMAIN file.doc.telemetry : ~Has(Devices, d) => file.doc.telemetry[d] = <<>>

\* C7: an ingestion request whose device id is not registered when it is
\* checked answers "unknown device" whatever key it carries and leaves
\* data.json as it is; the mutator of store_telemetry raises KeyError, answered
\* the same, for every unregistered id; no ingestion succeeds for an id that is
\* not registered.
C7_UnknownDevice == [][C7_Step]_vars /\ []C7_Recheck

C7_Witness ==
    \E t \in Threads :
        /\ Ingests(t) /\ pc[t] = "done" /\ res[t] = "unknown"
        /\ req[t].key = "k1"
        /\ FileOk /\ ~Has(Devices, req[t].dev) /\ Has(Devices, "d1")

\* C8, one step of a handler
C8_Step ==
    \A t \in Threads :
        (/\ pc[t] = "r_read" /\ Ingests(t) /\ FileOk
         /\ Has(Devices, req[t].dev)
         /\ pc'[t] # pc[t])
        => IF Truthy(StoredKey(Devices, req[t].dev))
              /\ req'[t].key # StoredKey(Devices, req[t].dev)
           THEN pc'[t] = "done" /\ res'[t] = "bad_key" /\ file' = file
           ELSE pc'[t] = "w_lock"

\* C8, every state
C8_StoredWithKey ==
    \A t \in Threads :
        (Ingests(t) /\ (Storing(t) \/ Succeeded(t)))
        => /\ FileOk
           /\ Has(Devices, req[t].dev)
           /\ Truthy(StoredKey(Devices, req[t].dev))
                 => req[t].key = StoredKey(Devices, req[t].dev)

\* C8: at the key check, a request for a registered device whose stored
\* api_key is non-empty and differs from the key supplied answers "invalid api
\* key" and leaves data.json as it is; every other request for a registered
\* device, those for a device with no or an empty stored api_key included, goes
\* on to store its record; so every handler that stores or has stored a record
\* carries the stored key of its device when that key is non-empty.
C8_ApiKey == [][C8_Step]_vars /\ []C8_StoredWithKey

C8_Witness ==
    \E t, u \in Threads :
        /\ Ingests(t) /\ pc[t] = "done" /\ res[t] = "bad_key"
        /\ Truthy(StoredKey(Devices, req[t].dev))
        /\ Bucket(file.doc, req[t].dev) = Bucket(initial.doc, req[t].dev)
        /\ Ingests(u) /\ Succeeded(u)
        /\ ~Truthy(StoredKey(Devices, req[u].dev))
        /\ req[u].key = "k2"

\* C9, one step of a handler
C9_Step ==
    \A t \in Threads :
        (/\ pc[t] = "r_read" /\ Queries(t) /\ FileOk
         /\ ~Given(req[t].start) /\ ~Given(req[t].end)
         /\ req[t].limit >= Len(Bucket(file.doc, req[t].dev))
         /\ pc'[t] # pc[t])
        => /\ pc'[t] = "done" /\ res'[t] = "ok"
           /\ \A u \in Ingested(req[t].dev) :
                 /\ req[u].payload \in Range(ret'[t].items)
                 /\ Len(Bucket(file.doc, req[t].dev)) = 1 => ret'[t].items = <<req[u].payload>>

\* C9, every state
C9_Timestamp ==
    \A t \in Threads :
        (Ingests(t) /\ Storing(t))
        => IF Given(req[t].ts)
           THEN req[t].payload.timestamp = req[t].ts
           ELSE \E now \in Times : req[t].payload.timestamp = Iso(now, "Z")

\* C9: a get_telemetry with no time bound and a limit of at least the length
\* of the device's sequence, reading after an ingestion request for the device
\* has answered ok, returns that request's record; when the sequence holds
\* only that record the result is exactly it.  The record carries the client's
\* timestamp, or a server-generated one when the client gave none.
C9_ReadYourWrite == [][C9_Step]_vars /\ []C9_Timestamp

C9_Witness ==
    \E t, u \in Threads :
        /\ Queries(t) /\ Succeeded(t)
        /\ u \in Ingested(req[t].dev)
        /\ ret[t].items = <<req[u].payload>>
        /\ req[u].payload.timestamp = Iso(MaxTime, "Z")

\* C10: with a positive limit, get_telemetry returns the last min(limit, m) of
\* the m records the time filter keeps, in arrival order, and never more than
\* limit records.
C10_LastLimit ==
    \A t \in Threads :
        (Queries(t) /\ Succeeded(t) /\ req[t].limit > 0)
        => LET f == TimeFilter(Bucket(file.doc, req[t].dev), req[t].start, req[t].end)
               m == Len(f.items)
               k == Min(req[t].limit, m)
           IN  /\ f.raised = ""
               /\ Len(ret[t].items) = k
               /\ Len(ret[t].items) <= req[t].limit
               /\ \A i \in 1..k : ret[t].items[i] = f.items[m - k + i]

C10_Witness ==
    \E t \in Threads :
        /\ Queries(t) /\ Succeeded(t)
        /\ req[t].limit = 2 /\ Given(req[t].start)
        /\ Len(Bucket(file.doc, req[t].dev)) = 3
        /\ Len(TimeFilter(Bucket(file.doc, req[t].dev), req[t].start, req[t].end).items) = 3
        /\ ret[t].items = SubSeq(Bucket(file.doc, req[t].dev), 2, 3)
        /\ ret[t].items[1] # Bucket(file.doc, req[t].dev)[1]


\* C11: a query whose limit is zero or negative is either rejected or answered
\* exactly as the same query with the default limit of 100 would be, and never
\* returns more than 100 records.
C11_NonPositiveLimit ==
    \A t \in Threads :
        (Queries(t) /\ pc[t] = "done" /\ req[t].limit <= 0)
        => \/ res[t] = "rejected"
           \/ LET g == GetTelemetry(file.doc, req[t].dev, req[t].start, req[t].end, DefaultLimit)
              IN  /\ res[t] = (IF g.raised = "" THEN "ok" ELSE "error")
                  /\ ret[t].items = g.items
                  /\ Len(ret[t].items) <= DefaultLimit


\* C12: a query that gives a start and/or an end (each a parsable ISO-8601
\* time) keeps, before the limit, exactly the records with a parsable timestamp
\* that is >= start when start is given and <= end when end is given, both
\* inclusive, in arrival order.
C12_InclusiveBounds ==
    \A t \in Threads :
        (/\ Queries(t) /\ pc[t] = "done"
         /\ Given(req[t].start) \/ Given(req[t].end)
         /\ req[t].start # BadTs /\ req[t].end # BadTs
         /\ req[t].limit = DefaultLimit)
        => LET Parsable(it) == it.timestamp.kind = "iso"
               InRange(it) ==
                   /\ Parsable(it)
                   /\ Given(req[t].start) => it.timestamp.t >= req[t].start.t
                   /\ Given(req[t].end) => it.timestamp.t <= req[t].end.t
           IN  /\ res[t] = "ok"
               /\ SelectSeq(ret[t].items, Parsable)
                      = SelectSeq(Bucket(file.doc, req[t].dev), InRange)


\* C13: a stored record whose timestamp is missing or unparsable is in no result
\* of a query that gives a start or an end, and a query that gives neither loses
\* no record to filtering: it returns the last `limit` of all stored records,
\* the ones without a usable timestamp included.
C13_UnparsableExcluded ==
    \A t \in Threads :
        (Queries(t) /\ Succeeded(t))
        => LET items == Bucket(file.doc, req[t].dev)
           IN  IF Given(req[t].start) \/ Given(req[t].end)
               THEN \A i \in 1..Len(ret[t].items) : ret[t].items[i].timestamp.kind = "iso"
               ELSE /\ ret[t].items = SliceFrom(items, 0 - req[t].limit)
                    /\ req[t].limit >= Len(items) => ret[t].items = items

C13_Witness ==
    \E t \in Threads :
        /\ Queries(t) /\ Succeeded(t)
        /\ Given(req[t].end) /\ req[t].limit = DefaultLimit
        /\ LET items == Bucket(file.doc, req[t].dev)
           IN  /\ Len(items) = 3
               /\ items[1].timestamp = BadTs
               /\ items[2].timestamp = Iso(1, "Z")
               /\ items[3].timestamp = NoTs
               /\ ret[t].items = <<items[2]>>


\* C14, one step of a handler
C14_Step ==
    \A t \in Threads :
        /\ (pc[t] = "w_replace" /\ Registers(t) /\ pc'[t] # pc[t])
           => /\ Succeeded(t)'
              /\ Has(file'.doc.telemetry, req[t].dev)
              /\ file'.doc.telemetry[req[t].dev] = Bucket(file.doc, req[t].dev)
              /\ ~Has(file.doc.telemetry, req[t].dev) => file'.doc.telemetry[req[t].dev] = <<>>
        /\ (pc[t] = "r_read" /\ req[t].op = "list" /\ pc'[t] # pc[t])
           => \A u \in Threads :
                 (Registers(u) /\ Succeeded(u))
                 => /\ Succeeded(t)'
                    /\ Has(ret'[t].devices, req[u].dev)
                    /\ ret'[t].devices[req[u].dev].registered_at.kind = "iso"
                    /\ Truthy(StoredKey(ret'[t].devices, req[u].dev))
                    /\ StoredKey(ret'[t].devices, req[u].dev) = req[u].key

\* C14, every state
C14_Stored ==
    \A t \in Threads :
        (Registers(t) /\ Succeeded(t))
        => /\ FileOk
           /\ Has(Devices, req[t].dev)
           /\ Devices[req[t].dev].registered_at \in {Iso(now, "Z") : now \in Times}
           /\ Truthy(StoredKey(Devices, req[t].dev))
           /\ StoredKey(Devices, req[t].dev) = req[t].key
           /\ req[t].key \in ApiKeys
           /\ Has(file.doc.telemetry, req[t].dev)

\* C14: after a device is registered successfully, whatever name and meta the
\* caller gave (a meta with an api_key of its own included), every later
\* list_devices contains it with registered_at set and a non-empty meta.api_key
\* equal to the api key the registration returned, and the device has a
\* telemetry bucket, empty when it had none before.
C14_RegisteredAndListed == [][C14_Step]_vars /\ []C14_Stored

C14_Witness ==
    \E t, u \in Threads :
        /\ Registers(t) /\ Succeeded(t)
        /\ req[u].op = "list" /\ Succeeded(u)
        /\ Has(ret[u].devices, req[t].dev)
        /\ Has(ret[u].devices[req[t].dev].meta, "site")
        /\ StoredKey(ret[u].devices, req[t].dev) = req[t].key
        /\ req[t].key # "own"
        /\ Bucket(file.doc, req[t].dev) = <<>>


\* C15, the property of a document
DevicesCoverTelemetry(d) ==
    \A device_id \in DOMAIN d.telemetry :
        d.telemetry[device_id] # <<>> => Has(d.devices, device_id)

\* C15: starting from the empty document (or any document in which every
\* non-empty telemetry sequence belongs to a registered device), in every state
\* reached by register, ingest, list and query requests in any interleaving,
\* every telemetry key with a non-empty sequence is also a key of devices; and
\* neither mutator, applied to the stored document for any device id, returns a
\* document that breaks this.
C15_TelemetryHasDevice ==
    DevicesCoverTelemetry(initial.doc)
    => /\ DevicesCoverTelemetry(file.doc)
       /\ \A t \in Threads : DevicesCoverTelemetry(data[t])
       /\ \A device_id \in DeviceIds, now \in Times :
             /\ DevicesCoverTelemetry(StoreMut(file.doc, device_id,
                                               BuildTelemetry(NoTs, None, now)).doc)
             /\ DevicesCoverTelemetry(RegisterMut(file.doc, device_id, EmptyMap, now).doc)

C15_Witness ==
    /\ initial.doc = EmptyDoc
    /\ \E t, u \in Threads :
          /\ Registers(t) /\ Succeeded(t)
          /\ Ingests(u) /\ Succeeded(u) /\ req[u].dev = req[t].dev
          /\ file.doc.telemetry[req[t].dev] = <<req[u].payload>>
          /\ DOMAIN file.doc.telemetry = DOMAIN file.doc.devices


\* C16, one step of the program
C16_Step ==
    FileOk => /\ FileOk'
              /\ \A device_id \in DOMAIN file.doc.devices :
                    /\ Has(file'.doc.devices, device_id)
                    /\ file'.doc.devices[device_id] = file.doc.devices[device_id]

\* C16, every state
C16_FromStart ==
    initial.state = "complete"
    => /\ FileOk
       /\ \A device_id \in DOMAIN initial.doc.devices :
             /\ Has(Devices, device_id)
             /\ Devices[device_id] = initial.doc.devices[device_id]

\* C16: once a device id is a key of devices it stays one and its DeviceRecord
\* (meta and registered_at) is the same in every later state: no request,
\* failure or crash updates or deletes it.
C16_DeviceImmutable == [][C16_Step]_vars /\ []C16_FromStart

C16_Witness ==
    \E t, u \in Threads :
        /\ Registers(t) /\ pc[t] = "done" /\ res[t] = "exists"
        /\ Ingests(u) /\ Succeeded(u) /\ req[u].dev = req[t].dev
        /\ Has(initial.doc.devices, req[t].dev)
        /\ Devices[req[t].dev] = initial.doc.devices[req[t].dev]
        /\ file # initial


\* C17, sequence a is a prefix of sequence b
IsPrefix(a, b) == Len(a) <= Len(b) /\ SubSeq(b, 1, Len(a)) = a

\* C17, one step of the program
C17_Step ==
    /\ FileOk => \A device_id \in DOMAIN file.doc.telemetry :
                    /\ Has(file'.doc.telemetry, device_id)
                    /\ IsPrefix(file.doc.telemetry[device_id], file'.doc.telemetry[device_id])
    /\ \A t \in Threads :
          (pc[t] = "w_replace" /\ Ingests(t) /\ Succeeded(t)')
          => /\ file'.doc.telemetry[req[t].dev]
                    = Append(Bucket(file.doc, req[t].dev), req[t].payload)
             /\ \A device_id \in DOMAIN file'.doc.telemetry \ {req[t].dev} :
                   file'.doc.telemetry[device_id] = Bucket(file.doc, device_id)

\* C17, every state
C17_FromStart ==
    \A device_id \in DOMAIN initial.doc.telemetry :
        IsPrefix(initial.doc.telemetry[device_id], Bucket(file.doc, device_id))

\* C17: telemetry is append-only: every step, failures and a crash included,
\* leaves each device's stored sequence a prefix of the sequence afterwards, and
\* a successful ingestion adds exactly its record at the end of the sequence as
\* it stood when its locked write replaced the file, so records stand in the
\* order of their locked writes.
C17_AppendOnly == [][C17_Step]_vars /\ []C17_FromStart

C17_Witness ==
    \E t, u \in Threads :
        /\ t # u
        /\ Ingests(t) /\ Succeeded(t) /\ Ingests(u) /\ Succeeded(u)
        /\ req[t].dev = req[u].dev
        /\ req[t].payload # req[u].payload
        /\ Len(Bucket(initial.doc, req[t].dev)) = 1
        /\ Bucket(file.doc, req[t].dev)
               = Bucket(initial.doc, req[t].dev) \o <<req[u].payload, req[t].payload>>
        /\ u > t


\* C18, one step of a handler
C18_Step ==
    \A t \in Threads :
        (InLock(t) /\ pc'[t] = "done" /\ res'[t] # "ok")
        => /\ lock = t /\ lock' = 0
           /\ pc[t] \notin {"r_ensure", "w_ensure"}
              => /\ file' = file
                 /\ InWriteAtomic(t) => StillOld(t)

\* C18, every state
C18_Released == \A t \in Threads : pc[t] \in {"idle", "r_lock", "w_lock", "done"} => lock # t

\* C18: under fair scheduling every request that has started is eventually
\* answered, with its result or with a failure, and a handler that is not
\* between acquiring and releasing storage._lock never holds it.  A handler
\* that fails inside the lock (read_all failing to parse, the mutator raising
\* for an existing or an unknown device, write_atomic failing) leaves the lock
\* free and data.json as it was, so the handlers waiting for the lock and the
\* later ones are answered too.
C18_Terminates ==
    /\ [][C18_Step]_vars
    /\ []C18_Released
    /\ \A t \in Threads : (pc[t] # "idle") ~> (pc[t] = "done")

C18_Witness ==
    \E t, u \in Threads :
        /\ Registers(t) /\ pc[t] = "done" /\ res[t] = "error" /\ tmp[t] = "partial"
        /\ Registers(u) /\ req[u].dev = req[t].dev /\ Succeeded(u)
        /\ lock = 0


\* C19, a step that creates the empty document where data.json does not exist
CreatesEmpty ==
    \/ file = Missing /\ file' = Partial
    \/ file = Partial /\ file' = Complete(EmptyDoc)

\* C19, one step of the program
C19_Step ==
    /\ \A t \in Threads :
          (/\ pc[t] \in {"idle", "r_lock", "r_read", "r_ensure"}
           /\ pc'[t] # pc[t])
          => /\ file' = file \/ CreatesEmpty
             /\ file'.doc = file.doc
    /\ file' # file
       => \/ CreatesEmpty
          \/ \E t \in Threads :
                /\ pc[t] = "w_replace" /\ lock = t /\ Succeeded(t)'
                /\ file' = Complete(data[t])

\* C19: data.json changes only in the replace that ends with_lock_write, apart
\* from the creation of the empty document where the file does not exist yet:
\* no step of list_devices, of get_telemetry or of an ingestion up to its
\* rejection (missing device id, unknown device, wrong api key) changes devices
\* or telemetry.
C19_ReadsChangeNothing == [][C19_Step]_vars

C19_Witness ==
    \E t, u \in Threads :
        /\ Ingests(t) /\ pc[t] = "done" /\ res[t] = "bad_key"
        /\ Queries(u) /\ Succeeded(u) /\ ret[u].items # <<>>
        /\ file = initial


\* C20: whenever no handler is in the middle of the first-use initialisation,
\* after failures and a crash at any step of any operation included, data.json
\* either does not exist or holds a complete document, and so no read_all finds
\* a file it cannot parse.
C20_NeverCorrupt ==
    /\ file.state = "partial" => \E t \in Threads : lock = t /\ pc[t] \in {"r_ensure", "w_ensure"}
    /\ \A t \in Threads :
          (lock = t /\ pc[t] \in {"r_read", "w_read"} /\ file.state # "missing")
          => ReadAll(file).raised = ""

=============================================================================
